---- MODULE Spec2Model ----
(***************************************************************************)
(* LeaveFlow: the storage layer (server/storage.ts, DatabaseStorage) over  *)
(* the tables of shared/schema.ts.  The tables are the state; every        *)
(* storage operation is an action.  A nullable column holds {} for SQL     *)
(* NULL and {v} for the value v.                                           *)
(***************************************************************************)
EXTENDS Integers, Sequences, FiniteSets, TLC

VARIABLES users,                  \* the users table, by id
          leaveRequests,          \* the leave_requests table, in insertion order
          departmentAssignments,  \* the department_assignments table
          activityLogs,           \* the activity_logs table
          now,                    \* the clock, in days
          last,                   \* the response of the operation run last
          opcount,                \* the number of operations run
          calls,                  \* the calls of updateLeaveRequestStatus under way
          req                     \* the HTTP request answered last

vars == <<users, leaveRequests, departmentAssignments, activityLogs,
          now, last, opcount, calls, req>>

(* ---------------------------- bounds ----------------------------------- *)

\* Number of storage operations run in one behaviour.
MaxOps == 3

(* ---------------------------- schema ----------------------------------- *)

NULL == {}

Val(v) == {v}

\* The value of a non-NULL nullable column.
The(opt) == CHOOSE v \in opt : TRUE

roleEnum == {"student", "teacher", "hod", "admin"}

leaveStatusEnum == {"pending", "approved", "rejected"}

\* Two of the six department codes and two of the years are enough to tell
\* "same" from "other".
departmentEnum == {"CSE", "AIDS"}

Years == {2, 3}

Nullable(S) == {NULL} \cup {Val(v) : v \in S}

\* The users of the sample database (by username).
SeedUsers ==
  [ admin    |-> [role |-> "admin",   department |-> NULL,        year |-> NULL],
    E23AI045 |-> [role |-> "student", department |-> Val("AIDS"), year |-> Val(3)],
    teacher1 |-> [role |-> "teacher", department |-> Val("CSE"),  year |-> NULL],
    E23CS032 |-> [role |-> "student", department |-> Val("CSE"),  year |-> Val(3)],
    Mouliraj |-> [role |-> "teacher", department |-> Val("CSE"),  year |-> Val(3)],
    hod1     |-> [role |-> "hod",     department |-> Val("CSE"),  year |-> Val(4)],
    student1 |-> [role |-> "student", department |-> Val("AIDS"), year |-> Val(3)] ]

\* An id that is the key of no user row.
NoSuchUser == "ghost"

\* The arguments the operations are called with.
RoleEditIds == {"hod1", "teacher1"}

RoleInputs == {"student", "teacher"}

UserEdits == {<<"E23CS032", "department", {}>>, <<"E23CS032", "year", {}>>,
              <<"E23CS032", "year", {2}>>, <<"hod1", "department", {}>>,
              <<"hod1", "department", {"AIDS"}>>}

StudentInputs == {"E23CS032", "E23AI045"}

ReviewerInputs == {"hod1", "teacher1"}

AnyStatusInputs == {"approved", "rejected", "pending"}

\* The route passes a status of z.enum(["approved", "rejected"]).
StatusInputs == {"approved", "rejected"}

\* Ids of leave requests; no row ever has id 0.
RequestIdInputs == {0, 1, 2}

\* getRecentLeaveRequests(reviewerId, days): the window, in days.
DaysInputs == {0, 2}

ClassInputs == {<<"CSE", 3>>, <<"AIDS", 3>>}

AdvisorInputs == {{}, {"teacher1"}}

HodInputs == {{"hod1"}}

\* Callers of the queries: one user of every role and an id of no user.
ReaderInputs == {"admin", "hod1", "teacher1", "E23CS032", NoSuchUser}

(* ---------------------------- SQL helpers ------------------------------ *)

SqlEqNullsEqual(a, b) == a = b

\* eq(column, value): SQL "=" is not true when either side is NULL.
SqlEq(a, b) == a # NULL /\ b # NULL /\ a = b

\* JavaScript truthiness of a nullable string and of a nullable number.
TruthyString(opt) == opt # NULL /\ opt # Val("")

TruthyNumber(opt) == opt # NULL /\ opt # Val(0)

SeqToSet(s) == {s[i] : i \in DOMAIN s}

\* ORDER BY key DESC over a set of rows, key giving the sort key of every
\* row: every arrangement of the rows in which the key never increases.  SQL
\* leaves the order of rows with equal keys open.
OrderByDesc(rows, key) ==
  { s \in [1..Cardinality(rows) -> rows] :
      /\ \A i, j \in DOMAIN s : i # j => s[i] # s[j]
      /\ \A i \in DOMAIN s : i + 1 \in DOMAIN s => key[s[i]] >= key[s[i + 1]] }

(* ---------------------------- initial state ---------------------------- *)

NoResponse == [op |-> "none"]

\* A JavaScript object is a function from its keys; these are the bodies
\* the clients post.  The second one carries keys the form never sends.
PlainBody == [type |-> "sick", fromDate |-> 3, toDate |-> 4, reason |-> "fever"]

ForgedBody ==
  [type |-> "personal", fromDate |-> 4, toDate |-> 3, reason |-> "trip",
   studentId |-> "student1", status |-> "approved", reviewedBy |-> "hod1",
   reviewedAt |-> 1, submittedAt |-> 0]

BodyInputs == {PlainBody, ForgedBody}

\* The body of the second request of the sample database.
MedicalBody == [type |-> "medical", fromDate |-> 2, toDate |-> 2, reason |-> "checkup"]

BodyOverStudentId(body, id) ==
  [k \in DOMAIN body \cup {"studentId"} |-> IF k \in DOMAIN body THEN body[k] ELSE id]

\* { ...body, studentId: id }
WithStudentId(body, id) ==
  [k \in DOMAIN body \cup {"studentId"} |-> IF k = "studentId" THEN id ELSE body[k]]

InsertLeaveRequestKeys == {"studentId", "type", "fromDate", "toDate", "reason"}

ParseKeepingAllKeys(object) == object

\* insertLeaveRequestSchema.parse(object): id, submittedAt, status, reviewedBy
\* and reviewedAt are omitted from the schema, and parse drops the keys the
\* schema does not have.
insertLeaveRequestSchema(object) ==
  [k \in DOMAIN object \cap InsertLeaveRequestKeys |-> object[k]]

\* The value INSERT stores in a column: the given one, or the column default.
ColumnOr(values, k, default) == IF k \in DOMAIN values THEN values[k] ELSE default

NullableColumn(values, k) == IF k \in DOMAIN values THEN Val(values[k]) ELSE NULL

\* db.insert(leaveRequests).values(request) at time t: the row stored.
InsertedLeaveRequest(id, request, t) ==
  [id |-> id, studentId |-> request.studentId, type |-> request.type,
   fromDate |-> request.fromDate, toDate |-> request.toDate,
   reason |-> request.reason,
   status |-> ColumnOr(request, "status", "pending"),
   reviewedBy |-> NullableColumn(request, "reviewedBy"),
   reviewedAt |-> NullableColumn(request, "reviewedAt"),
   submittedAt |-> ColumnOr(request, "submittedAt", t)]

\* The row of a request posted by a student with the body of the form.
NewLeaveRequest(id, studentId, t) ==
  InsertedLeaveRequest(id, insertLeaveRequestSchema(WithStudentId(PlainBody, studentId)), t)

\* The sample database after two of its students have submitted a request
\* each, one after the other.
InitialRequests ==
  << NewLeaveRequest(1, "E23CS032", 1),
     InsertedLeaveRequest(2, insertLeaveRequestSchema(WithStudentId(MedicalBody, "E23AI045")), 2) >>

\* Two calls of updateLeaveRequestStatus can be under way at a time.
CallIds == {"first", "second"}

Idle == [pc |-> "idle"]

\* No route has been called.
NoRequest == [route |-> "none"]

Init ==
  /\ calls = [c \in CallIds |-> Idle]
  /\ req = NoRequest
  /\ users = SeedUsers
  /\ now = 2
  /\ leaveRequests = InitialRequests
  /\ departmentAssignments = <<>>
  /\ activityLogs = <<>>
  /\ last = NoResponse
  /\ opcount = 0

(* ---------------------------- users ------------------------------------ *)

getUser(id) == IF id \in DOMAIN users THEN Val(users[id]) ELSE NULL

\* updateUserRole(id, role)
UpdateUserRole(id, role) ==
  /\ opcount < MaxOps
  /\ id \in DOMAIN users
  /\ users' = [users EXCEPT ![id].role = role]
  /\ opcount' = opcount + 1
  /\ last' = NoResponse
  /\ UNCHANGED <<leaveRequests, departmentAssignments, activityLogs, now, calls>>

\* updateUser(id, {department}) and updateUser(id, {year})
UpdateUser(id, field, value) ==
  /\ opcount < MaxOps
  /\ id \in DOMAIN users
  /\ users' = IF field = "department"
                THEN [users EXCEPT ![id].department = value]
                ELSE [users EXCEPT ![id].year = value]
  /\ opcount' = opcount + 1
  /\ last' = NoResponse
  /\ UNCHANGED <<leaveRequests, departmentAssignments, activityLogs, now, calls>>

(* ---------------------------- leave requests --------------------------- *)

\* createLeaveRequest(request), called by POST /api/leave-requests for a
\* caller who is a student, with the parsed body and the caller as studentId.
CreateLeaveRequest(request) ==
  /\ opcount < MaxOps
  /\ request.studentId \in DOMAIN users
  /\ users[request.studentId].role = "student"
  /\ leaveRequests' =
       Append(leaveRequests, InsertedLeaveRequest(Len(leaveRequests) + 1, request, now))
  /\ last' = [op |-> "createLeaveRequest", request |-> request,
              result |-> Val(leaveRequests'[Len(leaveRequests')])]
  /\ opcount' = opcount + 1
  /\ UNCHANGED <<users, departmentAssignments, activityLogs, now, calls>>

\* leaveRequests INNER JOIN users ON leaveRequests.studentId = users.id
JoinStudent ==
  { [k \in DOMAIN r \cup {"student"} |->
       IF k = "student" THEN users[r.studentId] ELSE r[k]] :
       r \in {q \in SeqToSet(leaveRequests) : q.studentId \in DOMAIN users} }

SubmittedAtAscending(rows) == [r \in rows |-> 0 - r.submittedAt]

\* desc(leaveRequests.submittedAt)
SubmittedAt(rows) == [r \in rows |-> r.submittedAt]

ReviewedAtIgnored(rows) == [r \in rows |-> r.submittedAt]

\* desc(leaveRequests.reviewedAt); ORDER BY ... DESC puts NULL first.
ReviewedAt(rows) ==
  [r \in rows |-> IF r.reviewedAt = NULL THEN now + 1 ELSE The(r.reviewedAt)]

\* WHERE ... over a set of rows, then ORDER BY.
BySubmittedAt(rows) == OrderByDesc(rows, SubmittedAt(rows))

ByReviewedAt(rows) == OrderByDesc(rows, ReviewedAt(rows))

\* getLeaveRequestsByStudent(studentId): the results the query can give.
getLeaveRequestsByStudent(studentId) ==
  BySubmittedAt({r \in SeqToSet(leaveRequests) : r.studentId = studentId})

AssignmentsOfAnyAdvisor(reviewerId) == SeqToSet(departmentAssignments)

\* The class-advisor assignments of a teacher.
AssignmentsOf(reviewerId) ==
  {a \in SeqToSet(departmentAssignments) : SqlEq(a.classAdvisorId, Val(reviewerId))}

PendingForAdminAnyStatus == JoinStudent

PendingForAdminWithDepartment ==
  {r \in JoinStudent : r.status = "pending" /\ r.student.department # NULL}

\* admin: WHERE status = 'pending'
PendingForAdmin ==
  {r \in JoinStudent : r.status = "pending"}

PendingForHodAnyDepartment(reviewer) ==
  {r \in JoinStudent : r.status = "pending"}

\* hod: WHERE status = 'pending' AND users.department = reviewer.department
PendingForHod(reviewer) ==
  {r \in JoinStudent :
     r.status = "pending" /\ SqlEq(r.student.department, reviewer.department)}

PendingForTeacherAnyYear(assignments) ==
  {r \in JoinStudent :
     /\ r.status = "pending"
     /\ \E a \in assignments : SqlEq(r.student.department, a.department)}

\* teacher: WHERE status = 'pending' AND (one of the assignment conditions)
PendingForTeacher(assignments) ==
  {r \in JoinStudent :
     /\ r.status = "pending"
     /\ \E a \in assignments :
          SqlEq(r.student.department, a.department) /\ SqlEq(r.student.year, a.year)}

\* Without the early return for a teacher of no class the list of conditions
\* is empty, or() of it is no condition, and only the status filters.
getPendingWithoutEarlyReturn(reviewerId) ==
  LET reviewer == getUser(reviewerId) IN
  IF reviewer = NULL THEN {<<>>}
  ELSE IF The(reviewer).role = "admin" THEN BySubmittedAt(PendingForAdmin)
  ELSE IF The(reviewer).role = "hod" THEN BySubmittedAt(PendingForHod(The(reviewer)))
  ELSE IF The(reviewer).role = "teacher" THEN
    IF AssignmentsOf(reviewerId) = {} THEN BySubmittedAt(PendingForAdmin)
    ELSE BySubmittedAt(PendingForTeacher(AssignmentsOf(reviewerId)))
  ELSE {<<>>}

\* getPendingLeaveRequestsForReviewer(reviewerId): the results the query can give.
getPendingLeaveRequestsForReviewer(reviewerId) ==
  LET reviewer == getUser(reviewerId) IN
  IF reviewer = NULL THEN {<<>>}
  ELSE IF The(reviewer).role = "admin" THEN BySubmittedAt(PendingForAdmin)
  ELSE IF The(reviewer).role = "hod" THEN BySubmittedAt(PendingForHod(The(reviewer)))
  ELSE IF The(reviewer).role = "teacher" THEN
    IF AssignmentsOf(reviewerId) = {} THEN {<<>>}
    ELSE BySubmittedAt(PendingForTeacher(AssignmentsOf(reviewerId)))
  ELSE {<<>>}

getRecentByReviewedAt(reviewerId, days, t) ==
  IF getUser(reviewerId) = NULL THEN {<<>>}
  ELSE ByReviewedAt({r \in JoinStudent :
                        /\ r.reviewedAt # NULL
                        /\ The(r.reviewedAt) >= t - days
                        /\ SqlEq(r.reviewedBy, Val(reviewerId))})

\* getRecentLeaveRequests(reviewerId, days) called at time t.
getRecentLeaveRequests(reviewerId, days, t) ==
  IF getUser(reviewerId) = NULL THEN {<<>>}
  ELSE ByReviewedAt({r \in JoinStudent :
                        /\ r.submittedAt >= t - days
                        /\ SqlEq(r.reviewedBy, Val(reviewerId))})

SelectAnyRequest(id) == JoinStudent

\* updateLeaveRequestStatus, first statement: the request joined with its student.
SelectWithStudent(id) == {r \in JoinStudent : r.id = id}

SetStatusOnly(reqs, id, status, reviewerId, t) ==
  [i \in DOMAIN reqs |->
     IF reqs[i].id = id THEN [reqs[i] EXCEPT !.status = status] ELSE reqs[i]]

SetStatusIfPending(reqs, id, status, reviewerId, t) ==
  [i \in DOMAIN reqs |->
     IF reqs[i].id = id /\ reqs[i].status = "pending"
       THEN [reqs[i] EXCEPT !.status = status,
                            !.reviewedBy = Val(reviewerId),
                            !.reviewedAt = Val(t)]
       ELSE reqs[i]]

SetStatusWithoutReviewedAt(reqs, id, status, reviewerId, t) ==
  [i \in DOMAIN reqs |->
     IF reqs[i].id = id
       THEN [reqs[i] EXCEPT !.status = status, !.reviewedBy = Val(reviewerId)]
       ELSE reqs[i]]

SetStatusAndSubmittedAt(reqs, id, status, reviewerId, t) ==
  [i \in DOMAIN reqs |->
     IF reqs[i].id = id
       THEN [reqs[i] EXCEPT !.status = status,
                            !.reviewedBy = Val(reviewerId),
                            !.reviewedAt = Val(t),
                            !.submittedAt = t]
       ELSE reqs[i]]

SetStatusKeepingReviewer(reqs, id, status, reviewerId, t) ==
  [i \in DOMAIN reqs |->
     IF reqs[i].id = id
       THEN [reqs[i] EXCEPT !.status = status,
                            !.reviewedBy = IF reqs[i].reviewedBy = NULL
                                             THEN Val(reviewerId) ELSE reqs[i].reviewedBy,
                            !.reviewedAt = Val(t)]
       ELSE reqs[i]]

\* updateLeaveRequestStatus, second statement: UPDATE ... SET ... WHERE id = id.
SetStatus(reqs, id, status, reviewerId, t) ==
  [i \in DOMAIN reqs |->
     IF reqs[i].id = id
       THEN [reqs[i] EXCEPT !.status = status,
                            !.reviewedBy = Val(reviewerId),
                            !.reviewedAt = Val(t)]
       ELSE reqs[i]]

InsertActivityLogOverwriting(logs, id, reviewerId, status, student, t) ==
  << [id |-> Len(logs) + 1, leaveRequestId |-> id, actionBy |-> reviewerId,
      action |-> status, department |-> student.department,
      year |-> student.year, actionAt |-> t] >>

\* createActivityLog(log): the row gets actionAt from the column default.
InsertActivityLog(logs, id, reviewerId, status, student, t) ==
  Append(logs, [id |-> Len(logs) + 1,
                leaveRequestId |-> id,
                actionBy |-> reviewerId,
                action |-> status,
                department |-> student.department,
                year |-> student.year,
                actionAt |-> t])

\* if (request && student.department && student.year)
ShouldLog(student) == TruthyString(student.department) /\ TruthyNumber(student.year)

\* updateLeaveRequestStatus(id, status, reviewerId), run without interruption;
\* called by PATCH /api/leave-requests/:id/status for a caller who is a
\* teacher or a HOD, with the caller as reviewerId.
UpdateLeaveRequestStatus(id, status, reviewerId) ==
  /\ opcount < MaxOps
  /\ opcount' = opcount + 1
  /\ reviewerId \in DOMAIN users
  /\ users[reviewerId].role \in {"teacher", "hod"}
  /\ now' \in IF SelectWithStudent(id) = {} THEN {now} ELSE {now, now + 1}
  /\ IF SelectWithStudent(id) = {}
       THEN /\ last' = [op |-> "updateLeaveRequestStatus", id |-> id, status |-> status,
                        reviewerId |-> reviewerId, result |-> NULL]
            /\ UNCHANGED <<leaveRequests, activityLogs, calls>>
       ELSE LET student == (CHOOSE r \in SelectWithStudent(id) : TRUE).student IN
            /\ leaveRequests' = SetStatus(leaveRequests, id, status, reviewerId, now')
            /\ activityLogs' = IF ShouldLog(student)
                                 THEN InsertActivityLog(activityLogs, id, reviewerId, status, student, now')
                                 ELSE activityLogs
            /\ last' = [op |-> "updateLeaveRequestStatus", id |-> id, status |-> status,
                        reviewerId |-> reviewerId,
                        result |-> {r \in SeqToSet(leaveRequests') : r.id = id}]
  /\ UNCHANGED <<users, departmentAssignments, calls>>

(* ---------------------------- department assignments ------------------- *)

\* createDepartmentAssignment(assignment)
CreateDepartmentAssignment(department, year, classAdvisorId, hodId) ==
  /\ opcount < MaxOps
  /\ opcount' = opcount + 1
  /\ departmentAssignments' =
       Append(departmentAssignments,
              [id |-> Len(departmentAssignments) + 1, department |-> Val(department),
               year |-> Val(year), classAdvisorId |-> classAdvisorId, hodId |-> hodId])
  /\ last' = NoResponse
  /\ UNCHANGED <<users, leaveRequests, activityLogs, now, calls>>

\* updateDepartmentAssignment(id, {classAdvisorId})
UpdateDepartmentAssignment(id, classAdvisorId) ==
  /\ opcount < MaxOps
  /\ opcount' = opcount + 1
  /\ id \in DOMAIN departmentAssignments
  /\ departmentAssignments' =
       [departmentAssignments EXCEPT ![id].classAdvisorId = classAdvisorId]
  /\ last' = NoResponse
  /\ UNCHANGED <<users, leaveRequests, activityLogs, now, calls>>

(* ---------------------------- activity logs ---------------------------- *)

\* desc(activityLogs.actionAt)
ByActionAt(rows) == OrderByDesc(rows, [l \in rows |-> l.actionAt])

\* activityLogs INNER JOIN leaveRequests INNER JOIN users (the acting user),
\* then the student of the leave request fetched for every row.
JoinLog ==
  { [id |-> l.id, leaveRequestId |-> l.leaveRequestId, action |-> l.action,
     actionAt |-> l.actionAt, department |-> l.department, year |-> l.year,
     leaveRequest |-> leaveRequests[l.leaveRequestId],
     student |-> users[leaveRequests[l.leaveRequestId].studentId],
     actionBy |-> users[l.actionBy]] :
       l \in {m \in SeqToSet(activityLogs) :
                m.leaveRequestId \in DOMAIN leaveRequests /\ m.actionBy \in DOMAIN users} }

Returned(results) == {[threw |-> FALSE, rows |-> s] : s \in results}

Thrown == {[threw |-> TRUE, rows |-> <<>>]}

\* getActivityLogsForReviewer(reviewerId): the outcomes the call can have.
\* The admin branch joins the users table twice under one name, which the
\* query builder refuses; the call throws.
getActivityLogsForReviewer(reviewerId) ==
  LET reviewer == getUser(reviewerId) IN
  IF reviewer = NULL THEN Returned({<<>>})
  ELSE IF The(reviewer).role = "admin" THEN Thrown
  ELSE IF The(reviewer).role = "hod" THEN
    Returned(ByActionAt({l \in JoinLog : SqlEq(l.department, The(reviewer).department)}))
  ELSE IF The(reviewer).role = "teacher" THEN
    IF AssignmentsOf(reviewerId) = {} THEN Returned({<<>>})
    ELSE Returned(ByActionAt({l \in JoinLog :
                                \E a \in AssignmentsOf(reviewerId) :
                                  /\ SqlEq(l.department, a.department)
                                  /\ SqlEq(l.year, a.year)}))
  ELSE Returned({<<>>})

\* The status code of the response of a route: that of the refusal, 201 for
\* a created leave request, 404 for an update that returned undefined, else 200.
StatusCode(response) ==
  IF response.op = "denied" THEN response.code
  ELSE IF response.op = "createLeaveRequest" THEN 201
  ELSE IF response.op = "updateLeaveRequestStatus" /\ response.result = NULL THEN 404
  ELSE 200

(* ---------------------------- queries as operations -------------------- *)

GetLeaveRequestsByStudent(studentId) ==
  /\ opcount < MaxOps
  /\ opcount' = opcount + 1
  /\ \E rows \in getLeaveRequestsByStudent(studentId) :
       last' = [op |-> "getLeaveRequestsByStudent", id |-> studentId,
                threw |-> FALSE, rows |-> rows]
  /\ UNCHANGED <<users, leaveRequests, departmentAssignments, activityLogs, now, calls>>

GetPendingLeaveRequestsForReviewer(reviewerId) ==
  /\ opcount < MaxOps
  /\ opcount' = opcount + 1
  /\ \E rows \in getPendingLeaveRequestsForReviewer(reviewerId) :
       last' = [op |-> "getPendingLeaveRequestsForReviewer", id |-> reviewerId,
                threw |-> FALSE, rows |-> rows]
  /\ UNCHANGED <<users, leaveRequests, departmentAssignments, activityLogs, now, calls>>

GetRecentLeaveRequests(reviewerId, days) ==
  /\ opcount < MaxOps
  /\ opcount' = opcount + 1
  /\ \E rows \in getRecentLeaveRequests(reviewerId, days, now) :
       last' = [op |-> "getRecentLeaveRequests", id |-> reviewerId, days |-> days,
                threw |-> FALSE, rows |-> rows]
  /\ UNCHANGED <<users, leaveRequests, departmentAssignments, activityLogs, now, calls>>

GetActivityLogsForReviewer(reviewerId) ==
  /\ opcount < MaxOps
  /\ opcount' = opcount + 1
  /\ \E out \in getActivityLogsForReviewer(reviewerId) :
       last' = [op |-> "getActivityLogsForReviewer", id |-> reviewerId,
                threw |-> out.threw, rows |-> out.rows]
  /\ UNCHANGED <<users, leaveRequests, departmentAssignments, activityLogs, now, calls>>

(* ---------------------------- specification ---------------------------- *)

Next ==
  \/ /\ \E id \in RoleEditIds, role \in RoleInputs : UpdateUserRole(id, role)
     /\ UNCHANGED req
  \/ /\ \E e \in UserEdits : UpdateUser(e[1], e[2], e[3])
     /\ UNCHANGED req
  \/ /\ \E s \in StudentInputs :
          CreateLeaveRequest(insertLeaveRequestSchema(WithStudentId(PlainBody, s)))
     /\ UNCHANGED req
  \/ /\ \E id \in RequestIdInputs, st \in StatusInputs, r \in ReviewerInputs :
          UpdateLeaveRequestStatus(id, st, r)
     /\ UNCHANGED req
  \/ /\ \E c \in ClassInputs, a \in AdvisorInputs, h \in HodInputs :
          CreateDepartmentAssignment(c[1], c[2], a, h)
     /\ UNCHANGED req
  \/ /\ \E id \in DOMAIN departmentAssignments, a \in AdvisorInputs :
          UpdateDepartmentAssignment(id, a)
     /\ UNCHANGED req
  \/ /\ \E id \in StudentInputs : GetLeaveRequestsByStudent(id)
     /\ UNCHANGED req
  \/ /\ \E id \in ReaderInputs : GetPendingLeaveRequestsForReviewer(id)
     /\ UNCHANGED req
  \/ /\ \E id \in ReaderInputs, days \in DaysInputs : GetRecentLeaveRequests(id, days)
     /\ UNCHANGED req
  \/ /\ \E id \in ReaderInputs : GetActivityLogsForReviewer(id)
     /\ UNCHANGED req

Spec == Init /\ [][Next]_vars

(* ---------------------------- class advisors --------------------------- *)

\* The two teachers of the sample database.
TeacherInputs == {"teacher1", "Mouliraj"}

\* The admin gives the classes to the first teacher, then changes the class
\* advisors, while students post requests, teachers review them and list
\* the pending ones.
NextAdvisors ==
  \/ /\ \E c \in ClassInputs, h \in HodInputs :
          CreateDepartmentAssignment(c[1], c[2], Val("teacher1"), h)
     /\ UNCHANGED req
  \/ /\ \E id \in DOMAIN departmentAssignments, t \in TeacherInputs :
          UpdateDepartmentAssignment(id, Val(t))
     /\ UNCHANGED req
  \/ /\ \E s \in StudentInputs :
          CreateLeaveRequest(insertLeaveRequestSchema(WithStudentId(PlainBody, s)))
     /\ UNCHANGED req
  \/ /\ \E id \in RequestIdInputs, st \in StatusInputs, t \in TeacherInputs :
          UpdateLeaveRequestStatus(id, st, t)
     /\ UNCHANGED req
  \/ /\ \E t \in TeacherInputs : GetPendingLeaveRequestsForReviewer(t)
     /\ UNCHANGED req

SpecAdvisors == Init /\ [][NextAdvisors]_vars

(* ---------------------------- concurrent status updates ---------------- *)

\* updateLeaveRequestStatus(id, status, reviewerId) statement by statement:
\* the function gives way at each await, and the statements of two calls
\* reach the database in any order.  PATCH /api/leave-requests/:id/status
\* starts a call for a caller who is a teacher or a HOD.  The calls are
\* named in the order they start.
CallUpdate(c, id, status, reviewerId) ==
  /\ calls[c].pc = "idle"
  /\ c = "second" => calls["first"].pc # "idle"
  /\ reviewerId \in DOMAIN users
  /\ users[reviewerId].role \in {"teacher", "hod"}
  /\ calls' = [calls EXCEPT ![c] = [pc |-> "select", id |-> id, status |-> status,
                                    reviewerId |-> reviewerId]]
  /\ UNCHANGED <<users, leaveRequests, departmentAssignments, activityLogs,
                 now, last, opcount, req>>

\* await db.select(...).where(eq(leaveRequests.id, id)).limit(1), and
\* if (leaveRequestWithStudent.length === 0) return undefined
SelectStatement(c) ==
  /\ calls[c].pc = "select"
  /\ calls' = [calls EXCEPT ![c] =
       IF SelectWithStudent(calls[c].id) = {}
         THEN [pc |-> "returned", id |-> calls[c].id, status |-> calls[c].status,
               reviewerId |-> calls[c].reviewerId, result |-> NULL]
         ELSE [pc |-> "send", id |-> calls[c].id, status |-> calls[c].status,
               reviewerId |-> calls[c].reviewerId,
               student |-> (CHOOSE r \in SelectWithStudent(calls[c].id) : TRUE).student]]
  /\ UNCHANGED <<users, leaveRequests, departmentAssignments, activityLogs,
                 now, last, opcount, req>>

\* const { student } = ...; db.update(leaveRequests).set({ status, reviewedBy,
\* reviewedAt: new Date() }): the statement is built, with the time of then,
\* and sent.
SendUpdate(c) ==
  /\ calls[c].pc = "send"
  /\ now' \in {now, now + 1}
  /\ calls' = [calls EXCEPT ![c] =
       [pc |-> "update", id |-> calls[c].id, status |-> calls[c].status,
        reviewerId |-> calls[c].reviewerId, student |-> calls[c].student,
        reviewedAt |-> now']]
  /\ UNCHANGED <<users, leaveRequests, departmentAssignments, activityLogs,
                 last, opcount, req>>

\* The database runs UPDATE ... WHERE id = id RETURNING *: one statement,
\* all three columns at once.
UpdateStatement(c) ==
  /\ calls[c].pc = "update"
  /\ leaveRequests' = SetStatus(leaveRequests, calls[c].id, calls[c].status,
                                calls[c].reviewerId, calls[c].reviewedAt)
  /\ calls' = [calls EXCEPT ![c] =
       [pc |-> "log", id |-> calls[c].id, status |-> calls[c].status,
        reviewerId |-> calls[c].reviewerId, student |-> calls[c].student,
        reviewedAt |-> calls[c].reviewedAt,
        result |-> {r \in SeqToSet(leaveRequests') : r.id = calls[c].id}]]
  /\ UNCHANGED <<users, departmentAssignments, activityLogs, now, last, opcount, req>>

\* if (request && student.department && student.year) await
\* this.createActivityLog(...); return request || undefined
LogStatement(c) ==
  /\ calls[c].pc = "log"
  /\ activityLogs' =
       IF calls[c].result # NULL /\ ShouldLog(calls[c].student)
         THEN InsertActivityLog(activityLogs, calls[c].id, calls[c].reviewerId,
                                calls[c].status, calls[c].student, now)
         ELSE activityLogs
  /\ calls' = [calls EXCEPT ![c] =
       [pc |-> "returned", id |-> calls[c].id, status |-> calls[c].status,
        reviewerId |-> calls[c].reviewerId, reviewedAt |-> calls[c].reviewedAt,
        result |-> calls[c].result]]
  /\ UNCHANGED <<users, leaveRequests, departmentAssignments, now, last, opcount, req>>

\* The edits of a student made while the calls run.
ConcurrentEdits == {<<"E23CS032", "year", {}>>, <<"E23CS032", "year", {2}>>}

\* Two calls, while an admin edits the students.
NextConcurrent ==
  \/ \E c \in CallIds, id \in RequestIdInputs, st \in StatusInputs, r \in ReviewerInputs :
       CallUpdate(c, id, st, r)
  \/ \E c \in CallIds : SelectStatement(c)
  \/ \E c \in CallIds : SendUpdate(c)
  \/ \E c \in CallIds : UpdateStatement(c)
  \/ \E c \in CallIds : LogStatement(c)
  \/ /\ \E e \in ConcurrentEdits : UpdateUser(e[1], e[2], e[3])
     /\ UNCHANGED req

SpecConcurrent == Init /\ [][NextConcurrent]_vars

(* ---------------------------- routes ----------------------------------- *)

\* The callers of the routes: nobody logged in ({}), or a user.
CallerInputs == {{}, {"admin"}, {"hod1"}, {"teacher1"}, {"E23CS032"}}

\* req.isAuthenticated()
isAuthenticated(caller) == caller # NULL /\ The(caller) \in DOMAIN users

\* req.user?.role of a caller who is authenticated.
UserRole(caller) == users[The(caller)].role

\* return res.status(code).json({ message }): nothing is read or written.
Deny(route, caller, code) ==
  /\ opcount < MaxOps
  /\ opcount' = opcount + 1
  /\ last' = [op |-> "denied", route |-> route, caller |-> caller, code |-> code]
  /\ UNCHANGED <<users, leaveRequests, departmentAssignments, activityLogs, now, calls>>

\* The route takes the request of the caller.
Received(route, caller) == req' = [route |-> route, caller |-> caller]

StaffRolesWithAdmin == {"teacher", "hod", "admin"}

\* ["teacher", "hod"].includes(req.user?.role)
StaffRoles == {"teacher", "hod"}

\* app.post("/api/leave-requests")
PostLeaveRequest(caller, body) ==
  /\ Received("POST /api/leave-requests", caller)
  /\ IF ~isAuthenticated(caller) \/ UserRole(caller) # "student"
       THEN Deny("POST /api/leave-requests", caller, 403)
       ELSE CreateLeaveRequest(insertLeaveRequestSchema(WithStudentId(body, The(caller))))

\* app.get("/api/leave-requests/my")
GetMyLeaveRequests(caller) ==
  /\ Received("GET /api/leave-requests/my", caller)
  /\ IF ~isAuthenticated(caller)
       THEN Deny("GET /api/leave-requests/my", caller, 401)
       ELSE GetLeaveRequestsByStudent(The(caller))

\* app.get("/api/leave-requests/pending")
GetPending(caller) ==
  /\ Received("GET /api/leave-requests/pending", caller)
  /\ IF ~isAuthenticated(caller) \/ UserRole(caller) \notin StaffRoles
       THEN Deny("GET /api/leave-requests/pending", caller, 403)
       ELSE GetPendingLeaveRequestsForReviewer(The(caller))

\* app.patch("/api/leave-requests/:id/status")
PatchStatus(caller, id, status) ==
  /\ Received("PATCH /api/leave-requests/:id/status", caller)
  /\ IF ~isAuthenticated(caller) \/ UserRole(caller) \notin StaffRoles
       THEN Deny("PATCH /api/leave-requests/:id/status", caller, 403)
       ELSE UpdateLeaveRequestStatus(id, status, The(caller))

\* storage.getRecentLeaveRequests(req.user.id, 7)
RecentDays == 7

\* app.get("/api/leave-requests/recent")
GetRecent(caller) ==
  /\ Received("GET /api/leave-requests/recent", caller)
  /\ IF ~isAuthenticated(caller) \/ UserRole(caller) \notin StaffRoles
       THEN Deny("GET /api/leave-requests/recent", caller, 403)
       ELSE GetRecentLeaveRequests(The(caller), RecentDays)

PatchUserRoleByAnyCaller(caller, id, role) ==
  /\ Received("PATCH /api/users/:id/role", caller)
  /\ UpdateUserRole(id, role)

\* app.patch("/api/users/:id/role")
PatchUserRole(caller, id, role) ==
  /\ Received("PATCH /api/users/:id/role", caller)
  /\ IF ~isAuthenticated(caller) \/ UserRole(caller) # "admin"
       THEN Deny("PATCH /api/users/:id/role", caller, 403)
       ELSE UpdateUserRole(id, role)

\* app.post("/api/department-assignments")
PostDepartmentAssignment(caller, department, year, classAdvisorId, hodId) ==
  /\ Received("POST /api/department-assignments", caller)
  /\ IF ~isAuthenticated(caller) \/ UserRole(caller) # "admin"
       THEN Deny("POST /api/department-assignments", caller, 403)
       ELSE CreateDepartmentAssignment(department, year, classAdvisorId, hodId)

\* app.patch("/api/department-assignments/:id")
PatchDepartmentAssignment(caller, id, classAdvisorId) ==
  /\ Received("PATCH /api/department-assignments/:id", caller)
  /\ IF ~isAuthenticated(caller) \/ UserRole(caller) # "admin"
       THEN Deny("PATCH /api/department-assignments/:id", caller, 403)
       ELSE UpdateDepartmentAssignment(id, classAdvisorId)

\* The routes, called one at a time.
NextApi ==
  \/ \E c \in CallerInputs, b \in BodyInputs : PostLeaveRequest(c, b)
  \/ \E c \in CallerInputs : GetMyLeaveRequests(c)
  \/ \E c \in CallerInputs : GetPending(c)
  \/ \E c \in CallerInputs, id \in RequestIdInputs, st \in StatusInputs :
       PatchStatus(c, id, st)
  \/ \E c \in CallerInputs : GetRecent(c)
  \/ \E c \in CallerInputs, id \in RoleEditIds, role \in RoleInputs :
       PatchUserRole(c, id, role)
  \/ \E c \in CallerInputs, k \in ClassInputs, a \in AdvisorInputs, h \in HodInputs :
       PostDepartmentAssignment(c, k[1], k[2], a, h)
  \/ \E c \in CallerInputs, id \in DOMAIN departmentAssignments, a \in AdvisorInputs :
       PatchDepartmentAssignment(c, id, a)

SpecApi == Init /\ [][NextApi]_vars

(* ---------------------------- properties ------------------------------- *)

\* last holds the response of the operation run last; every operation that
\* writes a table replaces it, so the tables are as the operation saw them.

PendingOp == "getPendingLeaveRequestsForReviewer"

RecentOp == "getRecentLeaveRequests"

LogsOp == "getActivityLogsForReviewer"

ByStudentOp == "getLeaveRequestsByStudent"

UpdateOp == "updateLeaveRequestStatus"

RoleOf(id) == IF id \in DOMAIN users THEN users[id].role ELSE "none"

RowIds(rows) == {rows[i].id : i \in DOMAIN rows}

NoDuplicates(rows) == \A i, j \in DOMAIN rows : i # j => rows[i].id # rows[j].id

PendingRequests == {r \in SeqToSet(leaveRequests) : r.status = "pending"}

StudentOf(r) == users[r.studentId]

\* C1: for an admin, getPendingLeaveRequestsForReviewer returns exactly the
\* pending leave requests, each once and with its student, whatever the
\* student's department and year.
C1_AdminSeesAllPending ==
  (last.op = PendingOp /\ RoleOf(last.id) = "admin") =>
    /\ ~last.threw
    /\ NoDuplicates(last.rows)
    /\ RowIds(last.rows) = {r.id : r \in PendingRequests}
    /\ \A i \in DOMAIN last.rows : last.rows[i].student = users[last.rows[i].studentId]

\* An admin got the request of a student without department next to one of
\* a student of AIDS.
C1_Witness ==
  /\ last.op = PendingOp
  /\ RoleOf(last.id) = "admin"
  /\ \E i, j \in DOMAIN last.rows :
       /\ last.rows[i].student.department = NULL
       /\ last.rows[j].student.department = Val("AIDS")

\* C2: for a HOD, getPendingLeaveRequestsForReviewer returns exactly the
\* pending requests of the students whose department is the HOD's, whatever
\* their year.
C2_HodSeesOwnDepartment ==
  (last.op = PendingOp /\ RoleOf(last.id) = "hod") =>
    /\ ~last.threw
    /\ NoDuplicates(last.rows)
    /\ RowIds(last.rows) =
         {r.id : r \in {q \in PendingRequests :
                          /\ StudentOf(q).department # NULL
                          /\ StudentOf(q).department = users[last.id].department}}

\* The HOD of CSE got the request of a CSE student of year 2 and not the
\* pending request of an AIDS student.
C2_Witness ==
  /\ last.op = PendingOp
  /\ RoleOf(last.id) = "hod"
  /\ users[last.id].department = Val("CSE")
  /\ \E i \in DOMAIN last.rows : last.rows[i].student.year = Val(2)
  /\ \E r \in PendingRequests :
       StudentOf(r).department = Val("AIDS") /\ r.id \notin RowIds(last.rows)

\* C3: for a teacher, getPendingLeaveRequestsForReviewer returns exactly the
\* pending requests of the students whose (department, year) is that of an
\* assignment with the teacher as class advisor.
C3_TeacherSeesAssignedClasses ==
  (last.op = PendingOp /\ RoleOf(last.id) = "teacher") =>
    /\ ~last.threw
    /\ NoDuplicates(last.rows)
    /\ RowIds(last.rows) =
         {r.id : r \in {q \in PendingRequests :
                          \E a \in SeqToSet(departmentAssignments) :
                            /\ a.classAdvisorId = Val(last.id)
                            /\ StudentOf(q).department = a.department
                            /\ StudentOf(q).year = a.year}}

\* The class advisor of (CSE, 3) alone got the request of the CSE student of
\* year 3 and not the pending request of a student of another class.
C3_Witness ==
  /\ last.op = PendingOp
  /\ RoleOf(last.id) = "teacher"
  /\ {<<a.department, a.year>> :
        a \in {b \in SeqToSet(departmentAssignments) : b.classAdvisorId = Val(last.id)}}
       = {<<Val("CSE"), Val(3)>>}
  /\ Len(last.rows) = 1
  /\ last.rows[1].student.department = Val("CSE")
  /\ last.rows[1].student.year = Val(3)
  /\ \E r \in PendingRequests : r.id \notin RowIds(last.rows)

MissingScope(id) ==
  \/ /\ RoleOf(id) = "teacher"
     /\ \A a \in SeqToSet(departmentAssignments) : a.classAdvisorId # Val(id)
  \/ /\ RoleOf(id) = "hod"
     /\ users[id].department = NULL

\* C4: a teacher who is class advisor of no assignment and a HOD without
\* department get an empty list, and no error, from the pending-requests
\* query and from the activity-log query.
C4_MissingScopeIsEmpty ==
  (last.op \in {PendingOp, LogsOp} /\ MissingScope(last.id)) =>
    (~last.threw /\ last.rows = <<>>)

\* A HOD without department asked for the activity logs when there were some.
C4_Witness ==
  /\ last.op = LogsOp
  /\ RoleOf(last.id) = "hod"
  /\ users[last.id].department = NULL
  /\ activityLogs # <<>>

\* C5: a caller who is no teacher, HOD or admin, or no user at all, gets an
\* empty result and no error from the pending, recent and activity-log queries.
C5_NonReviewerGetsNothing ==
  (last.op \in {PendingOp, RecentOp, LogsOp}
     /\ RoleOf(last.id) \notin {"teacher", "hod", "admin"}) =>
    (~last.threw /\ last.rows = <<>>)

\* C6, as claimed: a pending request of a student without department or
\* without year is never returned to a HOD or a teacher and always to an admin.
C6_NoDepartmentOrYearHidden ==
  last.op = PendingOp =>
    \A r \in PendingRequests :
      (StudentOf(r).department = NULL \/ StudentOf(r).year = NULL) =>
        /\ RoleOf(last.id) \in {"hod", "teacher"} => r.id \notin RowIds(last.rows)
        /\ RoleOf(last.id) = "admin" => r.id \in RowIds(last.rows)

\* C6, amended: a pending request of a student without department is never
\* returned to a HOD or a teacher, one of a student without year is never
\* returned to a teacher, and both are always returned to an admin.
C6_NoDepartmentHidden ==
  last.op = PendingOp =>
    \A r \in PendingRequests :
      /\ (StudentOf(r).department = NULL /\ RoleOf(last.id) \in {"hod", "teacher"})
           => r.id \notin RowIds(last.rows)
      /\ (StudentOf(r).year = NULL /\ RoleOf(last.id) = "teacher")
           => r.id \notin RowIds(last.rows)
      /\ ((StudentOf(r).department = NULL \/ StudentOf(r).year = NULL)
            /\ RoleOf(last.id) = "admin")
           => r.id \in RowIds(last.rows)

\* A class advisor of the student's department asked while the student had a
\* pending request and no year.
C6_Witness ==
  /\ last.op = PendingOp
  /\ RoleOf(last.id) = "teacher"
  /\ \E r \in PendingRequests, a \in SeqToSet(departmentAssignments) :
       /\ a.classAdvisorId = Val(last.id)
       /\ StudentOf(r).department = a.department
       /\ StudentOf(r).year = NULL

\* C7: the lists of getPendingLeaveRequestsForReviewer and of
\* getLeaveRequestsByStudent never go up in submittedAt, and
\* getLeaveRequestsByStudent returns exactly the requests of the student.
C7_SortedBySubmittedAt ==
  /\ last.op \in {PendingOp, ByStudentOp} =>
       \A i \in DOMAIN last.rows :
         i + 1 \in DOMAIN last.rows =>
           last.rows[i].submittedAt >= last.rows[i + 1].submittedAt
  /\ last.op = ByStudentOp =>
       /\ NoDuplicates(last.rows)
       /\ RowIds(last.rows) =
            {r.id : r \in {q \in SeqToSet(leaveRequests) : q.studentId = last.id}}

\* A student got two own requests, the later one first, while another
\* student had a request too.
C7_Witness ==
  /\ last.op = ByStudentOp
  /\ Len(last.rows) = 2
  /\ last.rows[1].submittedAt > last.rows[2].submittedAt
  /\ \E r \in SeqToSet(leaveRequests) : r.studentId # last.id

\* C8: getRecentLeaveRequests returns only requests whose reviewedBy is the
\* given reviewer, and the list never goes up in reviewedAt.
C8_RecentOwnAndSorted ==
  last.op = RecentOp =>
    /\ \A i \in DOMAIN last.rows :
         /\ last.rows[i].reviewedBy = Val(last.id)
         /\ last.rows[i].reviewedAt # NULL
    /\ \A i \in DOMAIN last.rows :
         i + 1 \in DOMAIN last.rows =>
           The(last.rows[i].reviewedAt) >= The(last.rows[i + 1].reviewedAt)

\* A reviewer got two requests reviewed at different times, the one
\* submitted first reviewed last.
C8_Witness ==
  /\ last.op = RecentOp
  /\ Len(last.rows) = 2
  /\ The(last.rows[1].reviewedAt) > The(last.rows[2].reviewedAt)
  /\ last.rows[1].submittedAt < last.rows[2].submittedAt

\* C9: two calls of getPendingLeaveRequestsForReviewer for the same reviewer,
\* with no write between them, return the same requests in the same order.
C9_Repeatable ==
  [][(/\ last.op = PendingOp
      /\ opcount' # opcount
      /\ last'.op = PendingOp
      /\ last'.id = last.id) => last'.rows = last.rows]_vars

\* C10: updateLeaveRequestStatus(id, "approved", R) on an existing pending
\* request leaves it approved, with reviewedBy R and a reviewedAt, and
\* returns the row as it then is.
C10_ApproveSetsReviewer ==
  [][(/\ opcount' # opcount
      /\ last'.op = UpdateOp
      /\ last'.status = "approved"
      /\ last'.id \in DOMAIN leaveRequests
      /\ leaveRequests[last'.id].status = "pending") =>
       /\ leaveRequests'[last'.id].status = "approved"
       /\ leaveRequests'[last'.id].reviewedBy = Val(last'.reviewerId)
       /\ leaveRequests'[last'.id].reviewedAt # NULL
       /\ last'.result = Val(leaveRequests'[last'.id])]_vars

\* The first operation approved a request, which was pending until then.
C10_Witness ==
  /\ opcount = 1
  /\ last.op = UpdateOp
  /\ last.status = "approved"
  /\ last.result # NULL
  /\ leaveRequests[last.id].status = "approved"

(* ---------------------------- status updates --------------------------- *)

\* The step is a run of updateLeaveRequestStatus.
UpdateStep == opcount' # opcount /\ last'.op = UpdateOp

RequestIds == {leaveRequests[i].id : i \in DOMAIN leaveRequests}

LogsOf(logs, id) == {i \in DOMAIN logs : logs[i].leaveRequestId = id}

\* C11: an update to rejected by R2 of a request that R approved before, R2
\* not R, is carried out: the request is then rejected with reviewedBy R2,
\* and the call returns the row.
C11_LastWriterWins ==
  [][(/\ UpdateStep
      /\ last'.status = "rejected"
      /\ last'.id \in DOMAIN leaveRequests
      /\ leaveRequests[last'.id].status = "approved"
      /\ leaveRequests[last'.id].reviewedBy # Val(last'.reviewerId)) =>
       /\ leaveRequests'[last'.id].status = "rejected"
       /\ leaveRequests'[last'.id].reviewedBy = Val(last'.reviewerId)
       /\ last'.result = Val(leaveRequests'[last'.id])]_vars

\* A request was approved by one reviewer, as its log row tells, and then
\* rejected by another.
C11_Witness ==
  /\ last.op = UpdateOp
  /\ last.status = "rejected"
  /\ last.result # NULL
  /\ The(last.result).reviewedBy = Val(last.reviewerId)
  /\ \E i \in LogsOf(activityLogs, last.id) :
       /\ activityLogs[i].action = "approved"
       /\ activityLogs[i].actionBy # last.reviewerId

\* C12: updateLeaveRequestStatus with an id of no leave request returns
\* undefined, which the route answers with 404, changes no leave request and
\* appends no activity log.
C12_NotFound ==
  [][(UpdateStep /\ last'.id \notin RequestIds) =>
       /\ last'.result = NULL
       /\ StatusCode(last') = 404
       /\ leaveRequests' = leaveRequests
       /\ activityLogs' = activityLogs]_vars

\* An update of a request that does not exist was answered, after an update
\* that was logged.
C12_Witness ==
  /\ last.op = UpdateOp
  /\ last.id \notin RequestIds
  /\ last.result = NULL
  /\ activityLogs # <<>>

\* C13: a pending leave request has neither reviewedBy nor reviewedAt, and
\* an approved or rejected one has both.
C13_ReviewerIffReviewed ==
  \A i \in DOMAIN leaveRequests :
    /\ leaveRequests[i].status = "pending" =>
         (leaveRequests[i].reviewedBy = NULL /\ leaveRequests[i].reviewedAt = NULL)
    /\ leaveRequests[i].status # "pending" =>
         (leaveRequests[i].reviewedBy # NULL /\ leaveRequests[i].reviewedAt # NULL)

\* One request is approved, one rejected and one pending.
C13_Witness ==
  \E i, j, k \in DOMAIN leaveRequests :
    /\ leaveRequests[i].status = "approved"
    /\ leaveRequests[j].status = "rejected"
    /\ leaveRequests[k].status = "pending"

\* C14: no step makes an approved or rejected leave request pending again,
\* and the status an update is called with is approved or rejected.
C14_NeverPendingAgain ==
  [][/\ \A i \in DOMAIN leaveRequests :
          leaveRequests[i].status # "pending" =>
            /\ i \in DOMAIN leaveRequests'
            /\ leaveRequests'[i].status # "pending"
     /\ UpdateStep => last'.status \in {"approved", "rejected"}]_vars

\* A request that was reviewed before has been reviewed again by the same
\* reviewer.
C14_Witness ==
  /\ last.op = UpdateOp
  /\ last.result # NULL
  /\ \E i, j \in LogsOf(activityLogs, last.id) :
       /\ i < j
       /\ activityLogs[i].actionBy = last.reviewerId
       /\ activityLogs[j].actionBy = last.reviewerId

ImmutableFields == {"id", "studentId", "submittedAt", "type", "fromDate", "toDate", "reason"}

\* C16: no step changes the studentId, submittedAt, type, fromDate, toDate or
\* reason of a leave request, and a status update leaves every other leave
\* request as it was.
C16_UpdateFrame ==
  [][/\ \A i \in DOMAIN leaveRequests :
          /\ i \in DOMAIN leaveRequests'
          /\ \A f \in ImmutableFields : leaveRequests'[i][f] = leaveRequests[i][f]
     /\ UpdateStep =>
          /\ DOMAIN leaveRequests' = DOMAIN leaveRequests
          /\ \A i \in DOMAIN leaveRequests :
               leaveRequests[i].id # last'.id => leaveRequests'[i] = leaveRequests[i]]_vars

\* The request of the checkup was rejected after the clock had moved, next to
\* a request of another student.
C16_Witness ==
  /\ last.op = UpdateOp
  /\ last.result # NULL
  /\ The(last.result).reason = MedicalBody.reason
  /\ The(last.result).reviewedAt # Val(The(last.result).submittedAt)
  /\ \E i \in DOMAIN leaveRequests : leaveRequests[i].studentId # The(last.result).studentId

\* C17: every update of a request that exists appends exactly one activity
\* log row, with the request, the reviewer, the status and the department and
\* year the student has then.
C17_OneLogPerUpdate ==
  [][(UpdateStep /\ last'.result # NULL) =>
       /\ Len(activityLogs') = Len(activityLogs) + 1
       /\ activityLogs'[Len(activityLogs')].leaveRequestId = last'.id
       /\ activityLogs'[Len(activityLogs')].actionBy = last'.reviewerId
       /\ activityLogs'[Len(activityLogs')].action = last'.status
       /\ activityLogs'[Len(activityLogs')].department =
            users[The(last'.result).studentId].department
       /\ activityLogs'[Len(activityLogs')].year =
            users[The(last'.result).studentId].year]_vars

\* C18: no step changes or removes an activity log row.
C18_LogsAppendOnly ==
  [][/\ Len(activityLogs') >= Len(activityLogs)
     /\ \A i \in DOMAIN activityLogs : activityLogs'[i] = activityLogs[i]]_vars

\* A row was logged, the year of the student was edited afterwards, and a
\* second row was logged.
C18_Witness ==
  /\ Len(activityLogs) = 2
  /\ activityLogs[1].leaveRequestId = activityLogs[2].leaveRequestId
  /\ activityLogs[1].year # activityLogs[2].year
  /\ activityLogs[2].year = users[leaveRequests[activityLogs[2].leaveRequestId].studentId].year

(* ---------------------------- routes ----------------------------------- *)

\* C15: a leave request is created pending, with neither reviewedBy nor
\* reviewedAt, whatever keys the posted body has.
C15_CreatedPending ==
  [][\A i \in DOMAIN leaveRequests' \ DOMAIN leaveRequests :
       /\ leaveRequests'[i].status = "pending"
       /\ leaveRequests'[i].reviewedBy = NULL
       /\ leaveRequests'[i].reviewedAt = NULL]_vars

\* A student posted the body that has status, reviewedBy and reviewedAt,
\* and the request was created.
C15_Witness ==
  /\ {"status", "reviewedBy", "reviewedAt"} \subseteq DOMAIN ForgedBody
  /\ last.op = "createLeaveRequest"
  /\ The(last.result).reason = ForgedBody.reason
  /\ The(last.result).id = Len(leaveRequests)
  /\ Len(leaveRequests) > Len(InitialRequests)

ReviewRoutes ==
  {"GET /api/leave-requests/pending", "GET /api/leave-requests/recent",
   "PATCH /api/leave-requests/:id/status"}

\* The caller of the review route the step is a call of, if it is one.
ReviewCaller(response) ==
  IF response.op = "denied" /\ response.route \in ReviewRoutes THEN {response.caller}
  ELSE IF response.op \in {PendingOp, RecentOp} THEN {Val(response.id)}
  ELSE IF response.op = UpdateOp THEN {Val(response.reviewerId)}
  ELSE {}

\* C20: the routes that list the pending requests, list the recent ones and
\* update a status admit a caller who is a teacher, a HOD or an admin, and
\* answer a student and a caller who is not logged in with 403, changing no
\* leave request.
C20_ReviewersAdmitted ==
  [][\A c \in ReviewCaller(last') :
       opcount' # opcount =>
         IF isAuthenticated(c) /\ UserRole(c) \in StaffRolesWithAdmin
           THEN StatusCode(last') # 403
           ELSE StatusCode(last') = 403 /\ leaveRequests' = leaveRequests]_vars

(* ---------------------------- concurrent status updates ---------------- *)

\* What a call writes, and what a row holds.
ReviewOfCall(call) == <<call.status, Val(call.reviewerId), Val(call.reviewedAt)>>

ReviewOfRow(row) == <<row.status, row.reviewedBy, row.reviewedAt>>

\* C19: the UPDATE of a call leaves the request with the status, reviewedBy
\* and reviewedAt of that call and returns that row; and when two calls on
\* the same request have returned, both have returned a row and the request
\* holds the status, reviewedBy and reviewedAt of one of the two calls.
C19_NoMixedReview ==
  [][/\ \A c \in CallIds :
          (calls[c].pc = "update" /\ calls'[c].pc = "log"
             /\ calls[c].id \in DOMAIN leaveRequests) =>
            /\ ReviewOfRow(leaveRequests'[calls[c].id]) = ReviewOfCall(calls'[c])
            /\ calls'[c].result = Val(leaveRequests'[calls[c].id])
     /\ (/\ \A c \in CallIds : calls'[c].pc = "returned"
         /\ calls'["first"].id = calls'["second"].id
         /\ calls'["first"].id \in DOMAIN leaveRequests') =>
          /\ \A c \in CallIds : calls'[c].result # NULL
          /\ \E c \in CallIds :
               ReviewOfRow(leaveRequests'[calls'[c].id]) = ReviewOfCall(calls'[c])]_vars

\* Two reviewers have reviewed the same request at once, one approving and
\* one rejecting; the call that took its time first was written last, and
\* the request holds what that call wrote.
C19_Witness ==
  /\ \A c \in CallIds : calls[c].pc = "returned" /\ calls[c].result # NULL
  /\ calls["first"].id = calls["second"].id
  /\ calls["first"].status # calls["second"].status
  /\ calls["first"].reviewerId # calls["second"].reviewerId
  /\ calls["first"].reviewedAt < calls["second"].reviewedAt
  /\ ReviewOfRow(leaveRequests[calls["first"].id]) = ReviewOfCall(calls["first"])
  /\ The(calls["second"].result).status = calls["second"].status

(* ---------------------------- scope of a reviewer ---------------------- *)

\* The request belongs to what the reviewer may see: every request for an
\* admin, those of the students of the own department for a HOD, those of the
\* students of a class the teacher is class advisor of for a teacher.
InScope(reviewerId, request) ==
  LET student == users[request.studentId] IN
  \/ RoleOf(reviewerId) = "admin"
  \/ /\ RoleOf(reviewerId) = "hod"
     /\ SqlEq(student.department, users[reviewerId].department)
  \/ /\ RoleOf(reviewerId) = "teacher"
     /\ \E a \in SeqToSet(departmentAssignments) :
          /\ a.classAdvisorId = Val(reviewerId)
          /\ SqlEq(student.department, a.department)
          /\ SqlEq(student.year, a.year)

\* C21: an update that succeeds is made by a reviewer who had the request in
\* scope when making it.
C21_UpdateWithinScope ==
  [][(UpdateStep /\ last'.result # NULL) =>
       InScope(last'.reviewerId, leaveRequests[last'.id])]_vars

LogIds(rows) == {rows[i].id : i \in DOMAIN rows}

\* The activity log row is in the scope of the reviewer.
LogInScope(reviewerId, log) ==
  \/ RoleOf(reviewerId) = "admin"
  \/ /\ RoleOf(reviewerId) = "hod"
     /\ SqlEq(log.department, users[reviewerId].department)
  \/ /\ RoleOf(reviewerId) = "teacher"
     /\ \E a \in SeqToSet(departmentAssignments) :
          /\ a.classAdvisorId = Val(reviewerId)
          /\ SqlEq(log.department, a.department)
          /\ SqlEq(log.year, a.year)

\* C23: for an admin, a HOD and a teacher getActivityLogsForReviewer returns
\* exactly the activity log rows in the scope of the reviewer, the latest
\* first, each with its leave request, the acting user and the student.
C23_LogsInScope ==
  (last.op = LogsOp /\ RoleOf(last.id) \in {"admin", "hod", "teacher"}) =>
    /\ ~last.threw
    /\ LogIds(last.rows) =
         {activityLogs[i].id : i \in {j \in DOMAIN activityLogs :
                                         LogInScope(last.id, activityLogs[j])}}
    /\ \A i, j \in DOMAIN last.rows : i # j => last.rows[i].id # last.rows[j].id
    /\ \A i \in DOMAIN last.rows :
         /\ i + 1 \in DOMAIN last.rows => last.rows[i].actionAt >= last.rows[i + 1].actionAt
         /\ last.rows[i].leaveRequest = leaveRequests[last.rows[i].leaveRequestId]
         /\ last.rows[i].actionBy = users[activityLogs[last.rows[i].id].actionBy]
         /\ last.rows[i].student = users[last.rows[i].leaveRequest.studentId]

\* C24: the class advisor of every department assignment is a teacher and
\* its HOD is a hod.
C24_AssignmentRoles ==
  \A i \in DOMAIN departmentAssignments :
    /\ departmentAssignments[i].classAdvisorId # NULL =>
         RoleOf(The(departmentAssignments[i].classAdvisorId)) = "teacher"
    /\ departmentAssignments[i].hodId # NULL =>
         RoleOf(The(departmentAssignments[i].hodId)) = "hod"

\* C28: getPendingLeaveRequestsForReviewer returns to no caller a request
\* that has been approved or rejected.
C28_ReviewedNeverPending ==
  \A id \in ReaderInputs :
    \A rows \in getPendingLeaveRequestsForReviewer(id) :
      \A i \in DOMAIN rows : leaveRequests[rows[i].id].status = "pending"

\* An admin asked after a request had been reviewed and logged, and got the
\* requests that were still pending.
C28_Witness ==
  /\ last.op = PendingOp
  /\ RoleOf(last.id) = "admin"
  /\ last.rows # <<>>
  /\ \E i \in DOMAIN activityLogs :
       /\ leaveRequests[activityLogs[i].leaveRequestId].status # "pending"
       /\ activityLogs[i].leaveRequestId \notin RowIds(last.rows)

\* C30: getRecentLeaveRequests(reviewer, days) returns exactly the requests
\* whose reviewedBy is the reviewer and whose submittedAt is not more than
\* days before the call.
C30_RecentWindowOnSubmittedAt ==
  last.op = RecentOp =>
    /\ NoDuplicates(last.rows)
    /\ RowIds(last.rows) =
         {r.id : r \in {q \in SeqToSet(leaveRequests) :
                          /\ q.reviewedBy = Val(last.id)
                          /\ q.submittedAt >= now - last.days}}

\* The reviewer asked right after reviewing a request that was submitted
\* before the window, and did not get it.
C30_Witness ==
  /\ last.op = RecentOp
  /\ \E r \in SeqToSet(leaveRequests) :
       /\ r.reviewedBy = Val(last.id)
       /\ r.reviewedAt = Val(now)
       /\ r.submittedAt < now - last.days
       /\ r.id \notin RowIds(last.rows)

\* C25: no stored leave request has its fromDate after its toDate.
C25_FromBeforeTo ==
  \A i \in DOMAIN leaveRequests : leaveRequests[i].fromDate <= leaveRequests[i].toDate

(* ---------------------------- callers of the routes -------------------- *)

Tables == <<users, leaveRequests, departmentAssignments, activityLogs>>

AdminRoutes ==
  {"PATCH /api/users/:id/role", "POST /api/department-assignments",
   "PATCH /api/department-assignments/:id"}

\* The caller is logged in with the role.
CallerIs(caller, role) == isAuthenticated(caller) /\ UserRole(caller) = role

\* C22: a leave request is created only for a caller who is a student, a
\* role is changed and a department assignment is created or updated only
\* for a caller who is an admin; every other caller of these routes gets 403
\* and no table changes.
C22_WritesByRole ==
  [][opcount' # opcount =>
       /\ Len(leaveRequests') > Len(leaveRequests) =>
            (req'.route = "POST /api/leave-requests" /\ CallerIs(req'.caller, "student"))
       /\ (users' # users \/ departmentAssignments' # departmentAssignments) =>
            (req'.route \in AdminRoutes /\ CallerIs(req'.caller, "admin"))
       /\ (req'.route = "POST /api/leave-requests" /\ ~CallerIs(req'.caller, "student")) =>
            (StatusCode(last') = 403 /\ Tables' = Tables)
       /\ (req'.route \in AdminRoutes /\ ~CallerIs(req'.caller, "admin")) =>
            (StatusCode(last') = 403 /\ Tables' = Tables)]_vars

\* A HOD asked for a change of the class advisor of an assignment that an
\* admin had created, and was refused.
C22_Witness ==
  /\ req.route = "PATCH /api/department-assignments/:id"
  /\ CallerIs(req.caller, "hod")
  /\ last.op = "denied"
  /\ last.code = 403
  /\ departmentAssignments # <<>>

\* C26: the studentId of a leave request created by POST /api/leave-requests
\* is the id of the caller, whatever studentId the body has.
C26_OwnerIsCaller ==
  [][\A i \in DOMAIN leaveRequests' \ DOMAIN leaveRequests :
       /\ req'.route = "POST /api/leave-requests"
       /\ leaveRequests'[i].studentId = The(req'.caller)]_vars

\* A student posted the body that has the studentId of another student, and
\* the request created is the caller's.
C26_Witness ==
  /\ req.route = "POST /api/leave-requests"
  /\ last.op = "createLeaveRequest"
  /\ The(last.result).reason = ForgedBody.reason
  /\ ForgedBody.studentId \in DOMAIN users
  /\ ForgedBody.studentId # The(req.caller)
  /\ The(last.result).studentId = The(req.caller)
  /\ leaveRequests[Len(leaveRequests)] = The(last.result)

(* ---------------------------- log and request -------------------------- *)

\* No call of updateLeaveRequestStatus is under way, and one has returned a row.
UpdatesCompleted ==
  /\ \A c \in CallIds : calls[c].pc \in {"idle", "returned"}
  /\ \E c \in CallIds : calls[c].pc = "returned" /\ calls[c].result # NULL

\* The activity log row of the request that was appended last.
MostRecentLog(id) ==
  activityLogs[CHOOSE i \in LogsOf(activityLogs, id) :
                 \A j \in LogsOf(activityLogs, id) : j <= i]

\* C27: when the updates have completed, the most recent activity log row
\* of a request that has one tells the status and the reviewer the request
\* has.
C27_LogAgreesWithRequest ==
  UpdatesCompleted =>
    \A i \in DOMAIN leaveRequests :
      LogsOf(activityLogs, leaveRequests[i].id) # {} =>
        /\ MostRecentLog(leaveRequests[i].id).action = leaveRequests[i].status
        /\ Val(MostRecentLog(leaveRequests[i].id).actionBy) = leaveRequests[i].reviewedBy

(* ---------------------------- class advisors --------------------------- *)

\* The ids of the pending requests of the students of the class of the
\* assignment.
PendingOfClass(a) ==
  {r.id : r \in {q \in PendingRequests :
                   /\ StudentOf(q).department = a.department
                   /\ StudentOf(q).year = a.year}}

\* The assignment is the only one of its class.
OnlyOfItsClass(a) ==
  \A i \in DOMAIN departmentAssignments :
    (/\ departmentAssignments[i].department = a.department
     /\ departmentAssignments[i].year = a.year) => departmentAssignments[i].id = a.id

\* C29: when updateDepartmentAssignment has changed the class advisor of the
\* only assignment of a class from one teacher to another, the pending
\* requests of the class are returned to the new class advisor and not to the
\* former one; and no list of a teacher has a request twice.
C29_VisibilityFollowsAssignments ==
  [][/\ \A i \in DOMAIN departmentAssignments, t1, t2 \in TeacherInputs :
          (/\ opcount' # opcount
           /\ t1 # t2
           /\ departmentAssignments[i].classAdvisorId = Val(t1)
           /\ departmentAssignments'[i].classAdvisorId = Val(t2)
           /\ OnlyOfItsClass(departmentAssignments[i])) =>
            /\ \A rows \in getPendingLeaveRequestsForReviewer(t2)' :
                 PendingOfClass(departmentAssignments[i])' \subseteq RowIds(rows)
            /\ \A rows \in getPendingLeaveRequestsForReviewer(t1)' :
                 PendingOfClass(departmentAssignments[i])' \cap RowIds(rows) = {}
     /\ \A t \in TeacherInputs :
          \A rows \in getPendingLeaveRequestsForReviewer(t)' : NoDuplicates(rows)]_vars

\* The class of the pending request went from the first teacher to the
\* other, who then got the request; the first teacher has no class left.
C29_Witness ==
  /\ last.op = PendingOp
  /\ last.id = "Mouliraj"
  /\ last.rows # <<>>
  /\ Len(departmentAssignments) = 1
  /\ departmentAssignments[1].classAdvisorId = Val("Mouliraj")
  /\ getPendingLeaveRequestsForReviewer("teacher1") = {<<>>}

====
